---- MODULE Spec2Model ----
(***************************************************************************)
(* Model of the moondream-go API client: one invocation of an operation    *)
(* (Caption / Query / Detect / Point) running the retry loop of            *)
(* sendRequest against a nondeterministic server and a cancellable         *)
(* context.  Durations are in milliseconds.                                *)
(***************************************************************************)
EXTENDS Integers, Sequences, FiniteSets, TLC

\* ---------------------------------------------------------------------
\* Program constants
\* ---------------------------------------------------------------------
defaultTimeout == 30000
defaultMaxRetries == 3
defaultRetryDelay == 1000

\* ---------------------------------------------------------------------
\* Bounds of the model
\* ---------------------------------------------------------------------
\* a timeout passed to WithTimeout (TestCaptionWithTimeout uses 100ms)
CustomTimeout == 100
\* time a server takes to answer when it answers
Latency == 50
\* longest JSON array / number of duplicate members in a response body
MaxElems == 1
\* longest list of options passed to NewMoondreamClient
MaxOpts == 1

Ops == {"Caption", "Query", "Detect", "Point"}
StringOps == {"Caption", "Query"}

\* Point posts to the endpoint of Detect
Endpoint_PointAsDetect(o) ==
    CASE o = "Caption" -> "/caption"
      [] o = "Query"   -> "/query"
      [] o = "Detect"  -> "/detect"
      [] o = "Point"   -> "/detect"

\* the endpoint each operation passes to sendRequest
Endpoint(o) ==
    CASE o = "Caption" -> "/caption"
      [] o = "Query"   -> "/query"
      [] o = "Detect"  -> "/detect"
      [] o = "Point"   -> "/point"

\* HTTP statuses the server may answer with
Statuses == {200, 400, 499, 500}

\* ---------------------------------------------------------------------
\* Error values.  `at` is the attempt index whose failure created the
\* value; `wrapped` is TRUE for fmt.Errorf("max retries exceeded: %w", e).
\* ---------------------------------------------------------------------
NoErr == [kind |-> "nil", status |-> 0, msg |-> "", at |-> -1, wrapped |-> FALSE]

SendErr(cause, n) ==
    [kind |-> "send", status |-> 0, msg |-> cause, at |-> n, wrapped |-> FALSE]

ReadErr(n) ==
    [kind |-> "read", status |-> 0, msg |-> "", at |-> n, wrapped |-> FALSE]

DecodeErr(n) ==
    [kind |-> "decode", status |-> 0, msg |-> "", at |-> n, wrapped |-> FALSE]

APIError(code, m, n) ==
    [kind |-> "api", status |-> code, msg |-> m, at |-> n, wrapped |-> FALSE]

CtxErr == [kind |-> "ctx", status |-> 0, msg |-> "", at |-> -1, wrapped |-> FALSE]

\* fmt.Errorf("max retries exceeded: %w", lastErr)
MaxRetriesExceeded(e) == [e EXCEPT !.wrapped = TRUE]

\* ---------------------------------------------------------------------
\* Bodies of responses with status >= 400
\* ---------------------------------------------------------------------
ErrBodies ==
    { [json |-> FALSE, code |-> 0,   msg |-> "raw text"],
      [json |-> TRUE,  code |-> 0,   msg |-> "invalid key"],
      [json |-> TRUE,  code |-> 400, msg |-> "invalid key"] }

\* the body's status_code is never used: the HTTP status always
ParseAPIError_AlwaysHTTPStatus(status, body, n) == APIError(status, body.msg, n)

\* json.Unmarshal(body, &apiErr), and the APIError synthesized when it fails
ParseAPIError(status, body, n) ==
    IF body.json
    THEN APIError(body.code, body.msg, n)
    ELSE APIError(status, body.msg, n)

\* ---------------------------------------------------------------------
\* Bodies of responses with status < 400, and json.Unmarshal into the
\* response struct of the operation
\* ---------------------------------------------------------------------
Keys == {"x", "y"}
\* a coordinate mapping: -1 stands for "key not present"
EmptyMap == [k \in Keys |-> -1]

\* JSON objects an array element may be: per key "absent", a number, or a
\* value of the wrong type ("bad")
JsonElems ==
    { [x |-> "1", y |-> "absent"],
      [x |-> "2", y |-> "1"],
      [x |-> "1", y |-> "bad"] }

\* JSON values a string member may have
JsonStrings == {"s1", "s2", "bad"}

SeqsUpTo(S, n) == UNION { [1..k -> S] : k \in 0..n }

ZeroResult == [str |-> "", len |-> 0, back |-> <<>>]

SuccessBodies(o) ==
    IF o \in StringOps
    THEN { [syntax |-> s, field |-> "members", members |-> m, elems |-> <<>>] :
             s \in BOOLEAN, m \in SeqsUpTo(JsonStrings, MaxElems) }
    ELSE { [syntax |-> s, field |-> f, members |-> <<>>, elems |-> <<>>] :
             s \in BOOLEAN, f \in {"absent", "bad"} }
         \cup
         { [syntax |-> TRUE, field |-> "array", members |-> <<>>, elems |-> e] :
             e \in SeqsUpTo(JsonElems, MaxElems) }

JsonNum(tok) == IF tok = "1" THEN 1 ELSE IF tok = "2" THEN 2 ELSE 0

\* decoding a JSON object into an existing map keeps the existing entries;
\* a value of the wrong type stores the zero value and saves an error
MergeMap(old, obj) ==
    [k \in Keys |-> IF obj[k] = "absent" THEN old[k] ELSE JsonNum(obj[k])]

ElemHasTypeError(obj) == \E k \in Keys : obj[k] = "bad"

\* decoding a JSON array into a slice: elements are decoded in place into
\* the existing backing array, the length is set to the number of elements
DecodeArray(res, elems) ==
    LET n == Len(elems)
        m == IF n > Len(res.back) THEN n ELSE Len(res.back)
    IN IF n = 0
       THEN [res EXCEPT !.len = 0, !.back = <<>>]
       ELSE [res EXCEPT
               !.len = n,
               !.back = [i \in 1..m |->
                           IF i <= n
                           THEN MergeMap(IF i <= Len(res.back)
                                         THEN res.back[i] ELSE EmptyMap,
                                         elems[i])
                           ELSE res.back[i]]]

RECURSIVE DecodeMembers(_, _)
\* duplicate members of a JSON object are stored in order; a member of the
\* wrong type is skipped
DecodeMembers(str, members) ==
    IF members = <<>>
    THEN str
    ELSE DecodeMembers(IF Head(members) = "bad" THEN str ELSE Head(members),
                       Tail(members))

\* json.Unmarshal(body, result): the new contents of result, and whether an
\* error is returned
Unmarshal(o, body, res) ==
    IF ~body.syntax
    THEN [res |-> res, err |-> TRUE]
    ELSE IF o \in StringOps
    THEN [res |-> [res EXCEPT !.str = DecodeMembers(res.str, body.members)],
          err |-> \E i \in 1..Len(body.members) : body.members[i] = "bad"]
    ELSE CASE body.field = "absent" -> [res |-> res, err |-> FALSE]
           [] body.field = "bad"    -> [res |-> res, err |-> TRUE]
           [] body.field = "array"  ->
                [res |-> DecodeArray(res, body.elems),
                 err |-> \E i \in 1..Len(body.elems) :
                            ElemHasTypeError(body.elems[i])]

\* resp.Caption / resp.Answer / resp.BoundingBoxes / resp.Points
Project(o, res) ==
    IF o \in StringOps
    THEN [str |-> res.str, seq |-> <<>>]
    ELSE [str |-> "", seq |-> SubSeq(res.back, 1, res.len)]

ZeroValue == [str |-> "", seq |-> <<>>]

\* ---------------------------------------------------------------------
\* Client construction
\* ---------------------------------------------------------------------
defaultBaseURL == "https://api.moondream.ai/v1"
CustomBaseURL == "https://custom.api.example.com"

WithTimeout(t) == [opt |-> "timeout", timeout |-> t, url |-> ""]
WithBaseURL(u) == [opt |-> "baseurl", timeout |-> 0, url |-> u]

ClientOptions == { WithTimeout(CustomTimeout), WithBaseURL(CustomBaseURL) }

\* WithTimeout that sets config.Timeout only
ApplyOption_ConfigOnly(c, o) ==
    IF o.opt = "timeout"
    THEN [c EXCEPT !.config.Timeout = o.timeout]
    ELSE [c EXCEPT !.config.BaseURL = o.url]

\* opt(client): WithTimeout sets config.Timeout and client.Timeout,
\* WithBaseURL sets config.BaseURL
ApplyOption(c, o) ==
    IF o.opt = "timeout"
    THEN [c EXCEPT !.config.Timeout = o.timeout, !.httpTimeout = o.timeout]
    ELSE [c EXCEPT !.config.BaseURL = o.url]

RECURSIVE ApplyOptions_Reversed(_, _)
\* the options applied last to first
ApplyOptions_Reversed(c, os) ==
    IF os = <<>> THEN c
    ELSE ApplyOption(ApplyOptions_Reversed(c, Tail(os)), Head(os))

RECURSIVE ApplyOptions(_, _)
\* for _, opt := range opts { opt(client) }
ApplyOptions(c, opts) ==
    IF opts = <<>> THEN c
    ELSE ApplyOptions(ApplyOption(c, Head(opts)), Tail(opts))

NewMoondreamClient(key, opts) ==
    ApplyOptions([config |-> [Timeout    |-> defaultTimeout,
                              BaseURL    |-> defaultBaseURL,
                              MaxRetries |-> defaultMaxRetries,
                              RetryDelay |-> defaultRetryDelay],
                  httpTimeout |-> defaultTimeout,
                  apiKey |-> key],
                 opts)

\* ---------------------------------------------------------------------
\* Image encoder.  A file is its read status and its bytes; text is a
\* sequence of characters.
\* ---------------------------------------------------------------------
\* bytes an image file may contain
Bytes == {0, 84, 255}
\* longest image file
MaxImageLen == 3

ImageFile(st, data) == [status |-> st, data |-> data]

\* files of the retry-loop specification: a path that does not exist, a file
\* that cannot be read, and a readable file
Images ==
    { ImageFile("missing", <<>>), ImageFile("denied", <<>>),
      ImageFile("ok", << 84 >>) }

\* files of the encoder specification
AllImages ==
    { ImageFile("missing", <<>>), ImageFile("denied", <<>>) }
    \cup { ImageFile("ok", d) : d \in SeqsUpTo(Bytes, MaxImageLen) }

\* fmt.Errorf("failed to read image file: %w", err)
FileReadErr(cause) ==
    [kind |-> "file", status |-> 0, msg |-> cause, at |-> -1, wrapped |-> FALSE]

\* the alphabet of base64.StdEncoding
B64Alphabet ==
    << "A", "B", "C", "D", "E", "F", "G", "H", "I", "J", "K", "L", "M", "N", "O", "P",
       "Q", "R", "S", "T", "U", "V", "W", "X", "Y", "Z", "a", "b", "c", "d", "e", "f",
       "g", "h", "i", "j", "k", "l", "m", "n", "o", "p", "q", "r", "s", "t", "u", "v",
       "w", "x", "y", "z", "0", "1", "2", "3", "4", "5", "6", "7", "8", "9", "+", "/" >>

B64Char(v) == B64Alphabet[v + 1]
IsB64Char(c) == \E v \in 0..63 : B64Alphabet[v + 1] = c
B64Value(c) == CHOOSE v \in 0..63 : B64Alphabet[v + 1] = c

RECURSIVE EncodeRaw(_)
\* base64.RawStdEncoding.EncodeToString: no padding
EncodeRaw(b) ==
    IF Len(b) = 0 THEN <<>>
    ELSE IF Len(b) = 1
    THEN << B64Char(b[1] \div 4), B64Char((b[1] % 4) * 16) >>
    ELSE IF Len(b) = 2
    THEN << B64Char(b[1] \div 4),
            B64Char((b[1] % 4) * 16 + b[2] \div 16),
            B64Char((b[2] % 16) * 4) >>
    ELSE << B64Char(b[1] \div 4),
            B64Char((b[1] % 4) * 16 + b[2] \div 16),
            B64Char((b[2] % 16) * 4 + b[3] \div 64),
            B64Char(b[3] % 64) >>
         \o EncodeRaw(SubSeq(b, 4, Len(b)))

RECURSIVE EncodeToString(_)
\* base64.StdEncoding.EncodeToString: 3 bytes become 4 characters, the last
\* group is padded with "="
EncodeToString(b) ==
    IF Len(b) = 0 THEN <<>>
    ELSE IF Len(b) = 1
    THEN << B64Char(b[1] \div 4), B64Char((b[1] % 4) * 16), "=", "=" >>
    ELSE IF Len(b) = 2
    THEN << B64Char(b[1] \div 4),
            B64Char((b[1] % 4) * 16 + b[2] \div 16),
            B64Char((b[2] % 16) * 4),
            "=" >>
    ELSE << B64Char(b[1] \div 4),
            B64Char((b[1] % 4) * 16 + b[2] \div 16),
            B64Char((b[2] % 16) * 4 + b[3] \div 64),
            B64Char(b[3] % 64) >>
         \o EncodeToString(SubSeq(b, 4, Len(b)))

RECURSIVE DecodeString(_)
\* base64.StdEncoding.DecodeString: the bytes, or an error for input that is
\* not padded base64
DecodeString(t) ==
    IF Len(t) = 0 THEN [ok |-> TRUE, data |-> <<>>]
    ELSE IF Len(t) < 4 \/ ~IsB64Char(t[1]) \/ ~IsB64Char(t[2])
    THEN [ok |-> FALSE, data |-> <<>>]
    ELSE LET v1 == B64Value(t[1])
             v2 == B64Value(t[2])
             b1 == v1 * 4 + v2 \div 16
         IN IF t[3] = "="
            THEN [ok |-> t[4] = "=" /\ Len(t) = 4, data |-> << b1 >>]
            ELSE IF ~IsB64Char(t[3]) THEN [ok |-> FALSE, data |-> <<>>]
            ELSE LET v3 == B64Value(t[3])
                     b2 == (v2 % 16) * 16 + v3 \div 4
                 IN IF t[4] = "="
                    THEN [ok |-> Len(t) = 4, data |-> << b1, b2 >>]
                    ELSE IF ~IsB64Char(t[4]) THEN [ok |-> FALSE, data |-> <<>>]
                    ELSE LET b3 == (v3 % 4) * 64 + B64Value(t[4])
                             rest == DecodeString(SubSeq(t, 5, Len(t)))
                         IN [ok |-> rest.ok,
                             data |-> << b1, b2, b3 >> \o rest.data]

DataURIPrefix ==
    << "d", "a", "t", "a", ":", "i", "m", "a", "g", "e", "/", "j", "p", "e", "g", ";", "b", "a", "s", "e", "6", "4", "," >>

\* the read error dropped: an empty payload is encoded instead
encodeImage_IgnoresError(img) ==
    [str |-> DataURIPrefix \o EncodeToString(img.data), err |-> NoErr]

\* the encoder with the unpadded encoding
encodeImage_Unpadded(img) ==
    IF img.status # "ok"
    THEN [str |-> <<>>, err |-> FileReadErr(img.status)]
    ELSE [str |-> DataURIPrefix \o EncodeRaw(img.data), err |-> NoErr]

\* encodeImage: os.ReadFile, then the data URI of the bytes
encodeImage(img) ==
    IF img.status # "ok"
    THEN [str |-> <<>>, err |-> FileReadErr(img.status)]
    ELSE [str |-> DataURIPrefix \o EncodeToString(img.data), err |-> NoErr]

\* ---------------------------------------------------------------------
\* State of one invocation
\* ---------------------------------------------------------------------
VARIABLES
    key,          \* the API key given to NewMoondreamClient
    opts,         \* the options given to NewMoondreamClient
    image,        \* the file at the image path
    req,          \* the *http.Request built by sendRequest
    client,       \* the MoondreamClient
    op,           \* the operation invoked
    pc,           \* "encode": the operation is about to encode the image;
                  \* "call": about to call client.Do; "do": call in flight;
                  \* "read": io.ReadAll in progress; "wait": in the backoff
                  \* select; "done": the operation has returned
    attempt,      \* loop variable of sendRequest
    lastErr,      \* lastErr of sendRequest
    result,       \* the response struct passed as result
    resp,         \* the response of the current attempt
    bodyRead,     \* the request body buffer of req has been drained
    cancelled,    \* ctx.Done() is closed
    now,          \* the clock
    deadline,     \* deadline of the client.Do call in flight
    retErr,       \* error returned by the operation
    retVal,       \* value returned by the operation
    execErr,      \* error returned by sendRequest to the operation
    \* history
    cancelAt,     \* pc, attempt and time at which ctx was cancelled
    waits,        \* durations of the backoff waits that elapsed
    outcomes,     \* outcome of every client.Do call, in order
    netAttempts,  \* number of network attempts started
    sentBody,     \* request body transmitted by the latest network attempt
    sentReq,      \* the request as transmitted by the latest network attempt
    \* a second invocation on the same client
    other         \* the locals of the invocation that is not running now

vars == << key, opts, image, req, client, op, pc, attempt, lastErr, result,
           resp, bodyRead, cancelled, now, deadline, retErr, retVal, execErr,
           cancelAt, waits, outcomes, netAttempts, sentBody, sentReq,
           other >>

\* the request struct of the operation, as marshalled by json.Marshal
Marshal(o, dataURI) == [image_url |-> dataURI, op |-> o]
\* a request body of no bytes
NoBody == [image_url |-> <<>>, op |-> ""]

\* a request built by http.NewRequest: it does not carry ctx
NewRequest_NoContext(c, o, body) ==
    [method |-> "POST",
     url |-> c.config.BaseURL \o Endpoint(o),
     header |-> { << "X-Moondream-Auth", c.apiKey >>,
                  << "Content-Type", "application/json" >> },
     body |-> body,
     withCtx |-> FALSE]

\* http.NewRequestWithContext(ctx, "POST", c.config.BaseURL+endpoint, body)
\* and the two req.Header.Set calls
NewRequestWithContext(c, o, body) ==
    [method |-> "POST",
     url |-> c.config.BaseURL \o Endpoint(o),
     header |-> { << "X-Moondream-Auth", c.apiKey >>,
                  << "Content-Type", "application/json" >> },
     body |-> body,
     withCtx |-> TRUE]

NoReq == [method |-> "", url |-> "", header |-> {}, body |-> NoBody,
          withCtx |-> FALSE]

\* the transport sees the cancellation of ctx through the request
CtxDone == req.withCtx /\ cancelled

NoResp == [status |-> 0, ebody |-> CHOOSE b \in ErrBodies : ~b.json,
           sbody |-> [syntax |-> FALSE, field |-> "absent",
                      members |-> <<>>, elems |-> <<>>]]
NotCancelled == [pc |-> "", attempt |-> -1, now |-> 0]

\* entries of the history `outcomes`: a client.Do call that failed ("ctx",
\* "bodylen", "refused", "timeout"), a response whose body could not be read
\* ("read"), or a response that was read ("resp"), with its status and
\* whether decoding its body returned an error
Failed(e) == [ev |-> e, status |-> 0, bad |-> FALSE]
Responded(st, undecodable) == [ev |-> "resp", status |-> st, bad |-> undecodable]

\* the state of an invocation that has not started, on a client built from
\* key k and options os, for image file img
Start(k, os, img) ==
    /\ key = k
    /\ opts = os
    /\ image = img
    /\ client = NewMoondreamClient(k, os)
    /\ req = NoReq
    /\ execErr = NoErr
    /\ sentReq = NoReq
    /\ op \in Ops
    /\ pc = "encode"
    /\ attempt = 0
    /\ lastErr = NoErr
    /\ result = ZeroResult
    /\ resp = NoResp
    /\ bodyRead = FALSE
    /\ cancelled = FALSE
    /\ now = 0
    /\ deadline = 0
    /\ retErr = NoErr
    /\ retVal = ZeroValue
    /\ cancelAt = NotCancelled
    /\ waits = <<>>
    /\ outcomes = <<>>
    /\ netAttempts = 0
    /\ sentBody = ""

\* no second invocation
NoInvocation == [pc |-> "none"]

Init ==
    /\ \E os \in SeqsUpTo(ClientOptions, MaxOpts), img \in Images :
          Start("test-api-key", os, img)
    /\ other = NoInvocation

\* the operation returns the field of the response struct with the error too
Return_WithPartialResult(err, res) ==
    /\ pc' = "done"
    /\ execErr' = err
    /\ retErr' = err
    /\ retVal' = Project(op, res)

\* the operation returns what sendRequest returned: ("", err) or (field, nil)
Return(err, res) ==
    /\ pc' = "done"
    /\ execErr' = err
    /\ retErr' = err
    /\ retVal' = IF err = NoErr THEN Project(op, res) ELSE ZeroValue

\* the loop bound written as attempt < MaxRetries
Continue_OffByOne(err) ==
    /\ lastErr' = err
    /\ attempt' = attempt + 1
    /\ IF attempt + 1 < client.config.MaxRetries
       THEN pc' = "wait" /\ UNCHANGED << retErr, retVal, execErr >>
       ELSE Return(MaxRetriesExceeded(err), result)

\* the final error wraps the error recorded before the last attempt
Continue_StaleErr(err) ==
    /\ lastErr' = err
    /\ attempt' = attempt + 1
    /\ IF attempt + 1 <= client.config.MaxRetries
       THEN pc' = "wait" /\ UNCHANGED << retErr, retVal, execErr >>
       ELSE Return(MaxRetriesExceeded(IF lastErr = NoErr THEN err ELSE lastErr),
                   result)

\* lastErr = ...; continue
Continue(err) ==
    /\ lastErr' = err
    /\ attempt' = attempt + 1
    /\ IF attempt + 1 <= client.config.MaxRetries
       THEN pc' = "wait" /\ UNCHANGED << retErr, retVal, execErr >>
       ELSE Return(MaxRetriesExceeded(err), result)

\* a constant delay between attempts
BackoffDelay_Constant(n) == client.config.RetryDelay

\* time.After(c.config.RetryDelay * time.Duration(attempt))
BackoffDelay(n) == client.config.RetryDelay * n

\* one deadline for the whole operation, which starts at time 0
DoDeadline_Overall(t) == client.httpTimeout

\* the deadline http.Client gives a Do call that starts at time t
DoDeadline(t) == t + client.httpTimeout

\* what client.Do transmits as the body of req: the buffer is intact on the
\* first use; once drained, the transport rewinds it (GetBody) only when it
\* retries on a reused connection, otherwise it fails the request (HTTP/1.1)
\* or sends an empty body (HTTP/2)
BodyChoices == IF bodyRead THEN {"full", "error", "empty"} ELSE {"full"}

\* encodedImage, err := c.encodeImage(imagePath) fails: return "", err
EncodeImageFails ==
    /\ pc = "encode"
    /\ encodeImage(image).err # NoErr
    /\ pc' = "done"
    /\ retErr' = encodeImage(image).err
    /\ retVal' = ZeroValue
    /\ UNCHANGED << other, key, opts, image, req, client, op, attempt, lastErr,
                    result, resp, bodyRead, cancelled, now, deadline, execErr,
                    cancelAt, waits, outcomes, netAttempts, sentBody,
                    sentReq >>

\* the image is encoded; the operation builds its request struct and enters
\* sendRequest, which marshals it and builds req
EncodeImageOk ==
    /\ pc = "encode"
    /\ encodeImage(image).err = NoErr
    /\ req' = NewRequestWithContext(client, op,
                                    Marshal(op, encodeImage(image).str))
    /\ pc' = "call"
    /\ UNCHANGED << other, key, opts, image, client, op, attempt, lastErr, result,
                    resp, bodyRead, cancelled, now, deadline, retErr, retVal,
                    execErr, cancelAt, waits, outcomes, netAttempts, sentBody,
                    sentReq >>

\* ctx is cancelled by the caller, at any moment before the operation returns
Cancel ==
    /\ pc # "done"
    /\ ~cancelled
    /\ cancelled' = TRUE
    /\ cancelAt' = [pc |-> pc, attempt |-> attempt, now |-> now]
    /\ UNCHANGED << other, key, opts, image, req, client, op, pc, attempt, lastErr,
                    result, resp, bodyRead, now, deadline, retErr, retVal,
                    execErr, waits, outcomes, netAttempts, sentBody,
                    sentReq >>

\* select: case <-ctx.Done(): return ctx.Err()
WaitCancelled ==
    /\ pc = "wait"
    /\ cancelled
    /\ Return(CtxErr, result)
    /\ UNCHANGED << other, key, opts, image, req, client, op, attempt, lastErr,
                    result, resp, bodyRead, cancelled, now, deadline,
                    cancelAt, waits, outcomes, netAttempts, sentBody,
                    sentReq >>

\* a plain time.Sleep(delay) instead of the select
TimerFires_IgnoresCtx ==
    /\ pc = "wait"
    /\ pc' = "call"
    /\ now' = now + BackoffDelay(attempt)
    /\ waits' = Append(waits, BackoffDelay(attempt))
    /\ UNCHANGED << other, key, opts, image, req, client, op, attempt, lastErr,
                    result, resp, bodyRead, cancelled, deadline, retErr,
                    retVal, execErr, cancelAt, outcomes, netAttempts,
                    sentBody, sentReq >>

\* a select whose timer case never becomes ready
TimerFires_NeverFires ==
    /\ pc = "wait"
    /\ ~cancelled
    /\ UNCHANGED vars

\* select: case <-time.After(delay)
TimerFires ==
    /\ pc = "wait"
    /\ ~cancelled
    /\ pc' = "call"
    /\ now' = now + BackoffDelay(attempt)
    /\ waits' = Append(waits, BackoffDelay(attempt))
    /\ UNCHANGED << other, key, opts, image, req, client, op, attempt, lastErr,
                    result, resp, bodyRead, cancelled, deadline, retErr,
                    retVal, execErr, cancelAt, outcomes, netAttempts,
                    sentBody, sentReq >>

\* resp, err := c.client.Do(req), with ctx already cancelled: the transport
\* gives up before it touches the network
DoCallCancelled ==
    /\ pc = "call"
    /\ CtxDone
    /\ outcomes' = Append(outcomes, Failed("ctx"))
    /\ Continue(SendErr("ctx", attempt))
    /\ UNCHANGED << other, key, opts, image, req, client, op, result, resp, bodyRead,
                    cancelled, now, deadline, cancelAt, waits, netAttempts,
                    sentBody, sentReq >>

\* resp, err := c.client.Do(req): the call starts a network attempt
DoCall ==
    /\ pc = "call"
    /\ ~CtxDone
    /\ netAttempts' = netAttempts + 1
    /\ deadline' = DoDeadline(now)
    /\ \E b \in BodyChoices :
         IF b = "error"
         THEN /\ outcomes' = Append(outcomes, Failed("bodylen"))
              /\ Continue(SendErr("bodylen", attempt))
              /\ UNCHANGED << sentBody, sentReq >>
         ELSE /\ sentBody' = b
              /\ sentReq' = [req EXCEPT
                                !.body = IF b = "full" THEN req.body ELSE NoBody]
              /\ pc' = "do"
              /\ UNCHANGED << attempt, lastErr, retErr, retVal, execErr,
                              outcomes >>
    /\ UNCHANGED << other, key, opts, image, req, client, op, result, resp, bodyRead,
                    cancelled, now, cancelAt, waits >>

\* client.Do fails before the request is written (connection refused)
DoRefused ==
    /\ pc = "do"
    /\ ~CtxDone
    /\ outcomes' = Append(outcomes, Failed("refused"))
    /\ Continue(SendErr("refused", attempt))
    /\ UNCHANGED << other, key, opts, image, req, client, op, result, resp, bodyRead,
                    cancelled, now, deadline, cancelAt, waits, netAttempts,
                    sentBody, sentReq >>

\* client.Do fails because client.Timeout elapsed
DoTimeout ==
    /\ pc = "do"
    /\ ~CtxDone
    /\ now' = deadline
    /\ bodyRead' \in {bodyRead, TRUE}
    /\ outcomes' = Append(outcomes, Failed("timeout"))
    /\ Continue(SendErr("timeout", attempt))
    /\ UNCHANGED << other, key, opts, image, req, client, op, result, resp,
                    cancelled, deadline, cancelAt, waits, netAttempts,
                    sentBody, sentReq >>

\* client.Do fails because ctx was cancelled while the call was in flight
DoCancelled ==
    /\ pc = "do"
    /\ CtxDone
    /\ bodyRead' \in {bodyRead, TRUE}
    /\ outcomes' = Append(outcomes, Failed("ctx"))
    /\ Continue(SendErr("ctx", attempt))
    /\ UNCHANGED << other, key, opts, image, req, client, op, result, resp,
                    cancelled, now, deadline, cancelAt, waits, netAttempts,
                    sentBody, sentReq >>

\* client.Do returns a response (status line and headers received)
DoResponds ==
    /\ pc = "do"
    /\ ~CtxDone
    /\ now + Latency < deadline
    /\ now' = now + Latency
    /\ bodyRead' = TRUE
    /\ \E st \in Statuses :
         IF st >= 400
         THEN \E eb \in ErrBodies :
                 resp' = [status |-> st, ebody |-> eb, sbody |-> NoResp.sbody]
         ELSE \E sb \in SuccessBodies(op) :
                 resp' = [status |-> st, ebody |-> NoResp.ebody, sbody |-> sb]
    /\ pc' = "read"
    /\ UNCHANGED << other, key, opts, image, req, client, op, attempt, lastErr,
                    result, cancelled, deadline, retErr, retVal, execErr,
                    cancelAt, waits, outcomes, netAttempts, sentBody,
                    sentReq >>

\* body, err := io.ReadAll(resp.Body) fails
ReadFails ==
    /\ pc = "read"
    /\ outcomes' = Append(outcomes, Failed("read"))
    /\ Continue(ReadErr(attempt))
    /\ resp' = NoResp
    /\ UNCHANGED << other, key, opts, image, req, client, op, result, bodyRead,
                    cancelled, now, deadline, cancelAt, waits, netAttempts,
                    sentBody, sentReq >>

\* the early return for client errors left out
IsClientError_RetryAll(status) == status < 400

\* if resp.StatusCode < 500 { return lastErr }
IsClientError(status) == status < 500

\* body read; status >= 400
HandleErrorStatus ==
    /\ pc = "read"
    /\ resp.status >= 400
    /\ LET apiErr == ParseAPIError(resp.status, resp.ebody, attempt)
       IN IF IsClientError(resp.status)
          THEN /\ outcomes' = Append(outcomes, Responded(resp.status, FALSE))
               /\ lastErr' = apiErr
               /\ Return(apiErr, result)
               /\ UNCHANGED << attempt, resp >>
          ELSE /\ outcomes' = Append(outcomes, Responded(resp.status, FALSE))
               /\ Continue(apiErr)
               /\ resp' = NoResp
    /\ UNCHANGED << other, key, opts, image, req, client, op, result, bodyRead,
                    cancelled, now, deadline, cancelAt, waits, netAttempts,
                    sentBody, sentReq >>

\* a decode failure returned at once instead of retried
HandleSuccessStatus_NoRetry ==
    /\ pc = "read"
    /\ resp.status < 400
    /\ LET u == Unmarshal(op, resp.sbody, result)
       IN /\ result' = u.res
          /\ outcomes' = Append(outcomes, Responded(resp.status, u.err))
          /\ lastErr' = IF u.err THEN DecodeErr(attempt) ELSE lastErr
          /\ Return(IF u.err THEN DecodeErr(attempt) ELSE NoErr, u.res)
    /\ UNCHANGED << other, key, opts, image, req, client, op, attempt, resp,
                    bodyRead, cancelled, now, deadline, cancelAt, waits,
                    netAttempts, sentBody, sentReq >>

\* body read; status < 400: json.Unmarshal(body, result)
HandleSuccessStatus ==
    /\ pc = "read"
    /\ resp.status < 400
    /\ LET u == Unmarshal(op, resp.sbody, result)
       IN /\ result' = u.res
          /\ IF u.err
             THEN /\ outcomes' = Append(outcomes, Responded(resp.status, TRUE))
                  /\ Continue(DecodeErr(attempt))
                  /\ resp' = NoResp
             ELSE /\ outcomes' = Append(outcomes, Responded(resp.status, FALSE))
                  /\ Return(NoErr, u.res)
                  /\ UNCHANGED << attempt, lastErr, resp >>
    /\ UNCHANGED << other, key, opts, image, req, client, op, bodyRead, cancelled,
                    now, deadline, cancelAt, waits, netAttempts, sentBody,
                    sentReq >>

Next ==
    \/ EncodeImageFails
    \/ EncodeImageOk
    \/ Cancel
    \/ WaitCancelled
    \/ TimerFires
    \/ DoCallCancelled
    \/ DoCall
    \/ DoRefused
    \/ DoTimeout
    \/ DoCancelled
    \/ DoResponds
    \/ ReadFails
    \/ HandleErrorStatus
    \/ HandleSuccessStatus

Spec == Init /\ [][Next]_vars

\* the steps of the invocation itself: every action but the caller's Cancel
Step ==
    \/ EncodeImageFails
    \/ EncodeImageOk
    \/ WaitCancelled
    \/ TimerFires
    \/ DoCallCancelled
    \/ DoCall
    \/ DoRefused
    \/ DoTimeout
    \/ DoCancelled
    \/ DoResponds
    \/ ReadFails
    \/ HandleErrorStatus
    \/ HandleSuccessStatus

\* the goroutine keeps running: each client.Do call and each io.ReadAll
\* returns (client.Timeout bounds them) and each time.After timer fires
SpecLive == Init /\ [][Next]_vars /\ WF_vars(Step)

\* ---------------------------------------------------------------------
\* Construction and image encoding on their own, over more keys, options
\* and files
\* ---------------------------------------------------------------------
ApiKeys == {"test-api-key", "other-key"}
OtherTimeout == 5000
OtherBaseURL == "http://127.0.0.1:8080"
\* longest list of options of the construction specification
MaxSetupOpts == 3

AllOptions ==
    { WithTimeout(CustomTimeout), WithTimeout(OtherTimeout),
      WithBaseURL(CustomBaseURL), WithBaseURL(OtherBaseURL) }

InitSetup ==
    /\ \E k \in ApiKeys, os \in SeqsUpTo(AllOptions, MaxSetupOpts),
          img \in AllImages :
          Start(k, os, img)
    /\ other = NoInvocation

NextSetup ==
    \/ EncodeImageFails
    \/ EncodeImageOk

SpecSetup == InitSetup /\ [][NextSetup]_vars

\* ---------------------------------------------------------------------
\* Two invocations on one client. Each call of an operation has its own
\* ctx, image, request, response struct and locals of sendRequest (req,
\* attempt, lastErr, resp); the receiver c is shared. The variables above are
\* the locals of the invocation that runs; `other` keeps those of the
\* invocation that waits for the scheduler. The clock counts the time
\* the invocation has spent.
\* ---------------------------------------------------------------------
Locals ==
    [image |-> image,
     op |-> op,
     req |-> req,
     pc |-> pc,
     attempt |-> attempt,
     lastErr |-> lastErr,
     result |-> result,
     resp |-> resp,
     bodyRead |-> bodyRead,
     cancelled |-> cancelled,
     now |-> now,
     deadline |-> deadline,
     retErr |-> retErr,
     retVal |-> retVal,
     execErr |-> execErr,
     cancelAt |-> cancelAt,
     waits |-> waits,
     outcomes |-> outcomes,
     netAttempts |-> netAttempts,
     sentBody |-> sentBody,
     sentReq |-> sentReq]

\* the locals of an invocation of operation o on image img that has not
\* started
NewInvocation(o, img) ==
    [image |-> img, op |-> o, req |-> NoReq, pc |-> "encode", attempt |-> 0,
     lastErr |-> NoErr, result |-> ZeroResult, resp |-> NoResp,
     bodyRead |-> FALSE, cancelled |-> FALSE, now |-> 0, deadline |-> 0,
     retErr |-> NoErr, retVal |-> ZeroValue, execErr |-> NoErr,
     cancelAt |-> NotCancelled, waits |-> <<>>, outcomes |-> <<>>,
     netAttempts |-> 0, sentBody |-> "", sentReq |-> NoReq]

\* lastErr and attempt kept in the client, shared by the invocations
Switch_SharedLoopState ==
    /\ other # NoInvocation
    /\ other' = Locals
    /\ image' = other.image
    /\ op' = other.op
    /\ req' = other.req
    /\ pc' = other.pc
    /\ result' = other.result
    /\ resp' = other.resp
    /\ bodyRead' = other.bodyRead
    /\ cancelled' = other.cancelled
    /\ now' = other.now
    /\ deadline' = other.deadline
    /\ retErr' = other.retErr
    /\ retVal' = other.retVal
    /\ execErr' = other.execErr
    /\ cancelAt' = other.cancelAt
    /\ waits' = other.waits
    /\ outcomes' = other.outcomes
    /\ netAttempts' = other.netAttempts
    /\ sentBody' = other.sentBody
    /\ sentReq' = other.sentReq
    /\ UNCHANGED << key, opts, client, lastErr, attempt >>

\* the scheduler suspends the running invocation and resumes the other one
Switch ==
    /\ other # NoInvocation
    /\ other' = Locals
    /\ image' = other.image
    /\ op' = other.op
    /\ req' = other.req
    /\ pc' = other.pc
    /\ attempt' = other.attempt
    /\ lastErr' = other.lastErr
    /\ result' = other.result
    /\ resp' = other.resp
    /\ bodyRead' = other.bodyRead
    /\ cancelled' = other.cancelled
    /\ now' = other.now
    /\ deadline' = other.deadline
    /\ retErr' = other.retErr
    /\ retVal' = other.retVal
    /\ execErr' = other.execErr
    /\ cancelAt' = other.cancelAt
    /\ waits' = other.waits
    /\ outcomes' = other.outcomes
    /\ netAttempts' = other.netAttempts
    /\ sentBody' = other.sentBody
    /\ sentReq' = other.sentReq
    /\ UNCHANGED << key, opts, client >>

\* operations of the two invocations
ConcOps == {"Caption", "Detect"}

InitConc ==
    \E img \in Images, o \in ConcOps :
        /\ Start("test-api-key", <<>>, img)
        /\ other = NewInvocation(o, CHOOSE i \in Images : i.status = "ok")

\* the responses the server gives in the runs of two invocations: 200 with a
\* well-formed body, 499 and 500 with an APIError body
ConcResponses(o) ==
    { [status |-> 200, ebody |-> NoResp.ebody, sbody |-> sb] :
        sb \in { b \in SuccessBodies(o) :
                   /\ b.syntax
                   /\ \/ b.members = << "s1" >>
                      \/ b.elems = << [x |-> "1", y |-> "absent"] >> } }
    \cup
    { [status |-> st, ebody |-> eb, sbody |-> NoResp.sbody] :
        st \in {499, 500}, eb \in { b \in ErrBodies : b.code = 400 } }

NextConc ==
    \/ Switch
    \/ EncodeImageFails
    \/ EncodeImageOk
    \/ Cancel
    \/ WaitCancelled
    \/ TimerFires
    \/ DoCallCancelled
    \/ DoCall /\ pc' = "do" /\ sentBody' = "full"
    \/ DoRefused
    \/ DoCancelled
    \/ DoResponds /\ resp' \in ConcResponses(op)
    \/ HandleErrorStatus
    \/ HandleSuccessStatus

SpecConc == InitConc /\ [][NextConc]_vars

TypeOK ==
    /\ pc \in {"call", "do", "read", "wait", "done"}
    /\ attempt \in 0..(defaultMaxRetries + 1)
    /\ netAttempts \in 0..(defaultMaxRetries + 1)

\* ---------------------------------------------------------------------
\* Properties
\* ---------------------------------------------------------------------
Is4xx(o) == o.ev = "resp" /\ o.status >= 400 /\ o.status <= 499
Is5xx(o) == o.ev = "resp" /\ o.status >= 500
IsUndecodable(o) == o.ev = "resp" /\ o.status < 400 /\ o.bad
IsSuccess(o) == o.ev = "resp" /\ o.status < 400 /\ ~o.bad
IsRetryable(o) == ~Is4xx(o) /\ ~IsSuccess(o)
NumOutcomes == Len(outcomes)
LastOutcome == outcomes[NumOutcomes]

\* C1: a response with status 400..499 on any attempt ends the invocation at
\* once with that APIError, unwrapped: it is the last outcome, the operation
\* has returned it, no backoff wait was started after it and no further
\* network attempt was made; when it is the first response exactly one
\* attempt was made and no retry delay elapsed.
C1_ClientErrorReturnsAtOnce ==
    \A i \in 1..NumOutcomes :
        Is4xx(outcomes[i]) =>
            /\ i = NumOutcomes
            /\ pc = "done"
            /\ retErr.kind = "api" /\ ~retErr.wrapped /\ retErr.at = i - 1
            /\ retErr = lastErr
            /\ retVal = ZeroValue
            /\ Len(waits) = i - 1
            /\ netAttempts = i
            /\ i = 1 => (netAttempts = 1 /\ waits = <<>> /\ now = Latency)

C1_Witness ==
    /\ pc = "done"
    /\ NumOutcomes = 1
    /\ Is4xx(outcomes[1])
    /\ outcomes[1].status = 499

C1_WitnessLater ==
    /\ pc = "done"
    /\ NumOutcomes = 3
    /\ Is4xx(outcomes[3])

\* C2: when the server answers every attempt with a 5xx status (the image
\* is readable and the context is not cancelled), the invocation returns only
\* after exactly
\* MaxRetries+1 network attempts, with the "max retries exceeded" error
\* wrapping an APIError; it never makes more attempts.
C2_ServerErrorsExhaustRetries ==
    (/\ image.status = "ok"
     /\ ~cancelled
     /\ \A i \in 1..NumOutcomes : Is5xx(outcomes[i]))
    =>
    /\ netAttempts <= defaultMaxRetries + 1
    /\ NumOutcomes = defaultMaxRetries + 1 =>
          (pc = "done" /\ netAttempts = defaultMaxRetries + 1)
    /\ pc = "done" =>
          /\ NumOutcomes = defaultMaxRetries + 1
          /\ netAttempts = defaultMaxRetries + 1
          /\ retErr.wrapped
          /\ retErr.kind = "api"
          /\ retVal = ZeroValue

C2_Witness ==
    /\ pc = "done"
    /\ ~cancelled
    /\ NumOutcomes = defaultMaxRetries + 1
    /\ \A i \in 1..NumOutcomes : Is5xx(outcomes[i])
    /\ retErr.wrapped

\* C3: backoff is linear: no wait precedes attempt 0, the wait that precedes
\* attempt n (1 <= n <= MaxRetries) is exactly RetryDelay * n, every attempt
\* n >= 1 is preceded by its wait, and an invocation that exhausts its
\* retries without cancellation has waited
\* RetryDelay * MaxRetries * (MaxRetries + 1) / 2 in total.
RECURSIVE SumSeq(_)
SumSeq(q) == IF q = <<>> THEN 0 ELSE Head(q) + SumSeq(Tail(q))

C3_LinearBackoff ==
    /\ Len(waits) <= defaultMaxRetries
    /\ \A n \in 1..Len(waits) : waits[n] = defaultRetryDelay * n
    /\ pc \in {"call", "do", "read"} => Len(waits) = attempt
    /\ pc = "wait" => Len(waits) = attempt - 1
    /\ NumOutcomes = 0 => waits = <<>>
    /\ (pc = "done" /\ retErr.wrapped /\ ~cancelled) =>
          SumSeq(waits) =
             (defaultRetryDelay * defaultMaxRetries * (defaultMaxRetries + 1)) \div 2

C3_Witness ==
    /\ pc = "done"
    /\ retErr.wrapped
    /\ ~cancelled
    /\ waits = << 1000, 2000, 3000 >>

\* C4: if ctx is cancelled while sendRequest is in a backoff wait, it returns
\* the context's error: the wait in progress never elapses (the clock does not
\* advance), no further client.Do call or network attempt is made.
C4_CancelDuringWait ==
    cancelAt.pc = "wait" =>
        /\ pc \in {"wait", "done"}
        /\ pc = "done" => (retErr = CtxErr /\ retVal = ZeroValue)
        /\ now = cancelAt.now
        /\ attempt = cancelAt.attempt
        /\ Len(waits) = cancelAt.attempt - 1
        /\ NumOutcomes = cancelAt.attempt
        /\ netAttempts <= cancelAt.attempt

C4_Witness ==
    /\ cancelAt.pc = "wait"
    /\ cancelAt.attempt = 2
    /\ pc = "done"
    /\ retErr = CtxErr

\* C5 (as claimed): if ctx is cancelled while a client.Do call is in flight,
\* on any attempt index including the last, the operation returns the
\* cancellation error itself, never a network or retries-exhausted error.
C5_CancelInFlightReturnsCtxErr ==
    (cancelAt.pc = "do" /\ pc = "done") =>
        (retErr.kind = "ctx" /\ ~retErr.wrapped)

\* C6: when all MaxRetries+1 attempts fail with retryable failures of any
\* mix, the returned "max retries exceeded" error wraps the failure recorded
\* by the final attempt (index MaxRetries), whose kind is that of the final
\* attempt's outcome.
KindOfFailure(o) ==
    CASE o.ev \in {"ctx", "bodylen", "refused", "timeout"} -> "send"
      [] o.ev = "read" -> "read"
      [] Is5xx(o) -> "api"
      [] IsUndecodable(o) -> "decode"
      [] OTHER -> "nil"

C6_ExhaustedWrapsLastFailure ==
    (/\ pc = "done"
     /\ NumOutcomes = defaultMaxRetries + 1
     /\ \A i \in 1..NumOutcomes : IsRetryable(outcomes[i]))
    =>
    /\ retErr.wrapped
    /\ retErr.at = defaultMaxRetries
    /\ retErr.kind = KindOfFailure(LastOutcome)
    /\ retErr = MaxRetriesExceeded(lastErr)

C6_Witness ==
    /\ pc = "done"
    /\ NumOutcomes = defaultMaxRetries + 1
    /\ \A i \in 1..NumOutcomes : IsRetryable(outcomes[i])
    /\ Is5xx(outcomes[1])
    /\ outcomes[2].ev = "timeout"
    /\ outcomes[3].ev = "read"
    /\ IsUndecodable(outcomes[4])
    /\ retErr.kind = "decode"

\* C7 (as claimed): whenever the operation fails because the server answered
\* with a status >= 400 (ctx not cancelled), the error handed to the caller
\* is itself an *APIError (not a wrapper around one), so that the type
\* assertion err.(*APIError) succeeds.
C7_APIErrorIsReturnedDirectly ==
    (/\ pc = "done"
     /\ ~cancelled
     /\ NumOutcomes > 0
     /\ (Is4xx(LastOutcome) \/ Is5xx(LastOutcome)))
    =>
    (retErr.kind = "api" /\ ~retErr.wrapped)

\* C8: a response with status < 400 whose body cannot be decoded is a
\* transient failure: it is recorded as lastErr and, when attempts remain,
\* the invocation goes on to the backoff wait and, after it, to the next
\* attempt (only cancellation during the wait ends it); on the last attempt
\* it ends the invocation with the retries-exhausted error.
C8_UndecodableBodyIsRetried ==
    (NumOutcomes > 0 /\ IsUndecodable(LastOutcome)) =>
        /\ lastErr = DecodeErr(NumOutcomes - 1)
        /\ attempt = NumOutcomes
        /\ NumOutcomes <= defaultMaxRetries =>
              \/ pc = "wait"
              \/ pc \in {"call", "do", "read"} /\ Len(waits) = NumOutcomes
              \/ pc = "done" /\ cancelled /\ retErr = CtxErr
        /\ NumOutcomes = defaultMaxRetries + 1 =>
              pc = "done" /\ retErr = MaxRetriesExceeded(lastErr)

\* after the undecodable body of attempt 0, attempt 1 is on its way
C8_Witness ==
    /\ NumOutcomes = 2
    /\ IsUndecodable(outcomes[1])
    /\ netAttempts = 2
    /\ waits = << 1000 >>

\* the field of a response, decoded on its own
FieldOf(o, body) == Project(o, Unmarshal(o, body, ZeroResult).res)

\* C9 (as claimed): the first attempt whose response has status < 400 and
\* decodes successfully ends the invocation with a nil error, and the value
\* returned is exactly the corresponding field of that response.
C9_SuccessReturnsResponseField ==
    \A i \in 1..NumOutcomes :
        IsSuccess(outcomes[i]) =>
            /\ i = NumOutcomes
            /\ pc = "done"
            /\ retErr = NoErr
            /\ retVal = FieldOf(op, resp.sbody)

\* C10: the timeout bounds each HTTP attempt separately: every client.Do call
\* in flight has the full configured timeout ahead of it, an attempt that
\* times out is recorded as a send failure and retried while attempts remain,
\* and when every attempt times out (no cancellation) exactly MaxRetries+1
\* attempts are made before the retries-exhausted error is returned.
C10_TimeoutPerAttempt ==
    /\ pc = "do" => deadline = now + client.config.Timeout
    /\ (NumOutcomes > 0 /\ LastOutcome.ev = "timeout") =>
          /\ lastErr = SendErr("timeout", NumOutcomes - 1)
          /\ NumOutcomes <= defaultMaxRetries =>
                \/ pc = "wait"
                \/ pc \in {"call", "do", "read"} /\ Len(waits) = NumOutcomes
                \/ pc = "done" /\ cancelled /\ retErr = CtxErr
    /\ (/\ pc = "done"
        /\ image.status = "ok"
        /\ ~cancelled
        /\ \A i \in 1..NumOutcomes : outcomes[i].ev = "timeout")
       =>
       /\ netAttempts = defaultMaxRetries + 1
       /\ NumOutcomes = defaultMaxRetries + 1
       /\ retErr = MaxRetriesExceeded(SendErr("timeout", defaultMaxRetries))
       /\ now = (defaultMaxRetries + 1) * client.config.Timeout
                + defaultRetryDelay * 6

C10_Witness ==
    /\ pc = "done"
    /\ ~cancelled
    /\ client.config.Timeout = CustomTimeout
    /\ NumOutcomes = defaultMaxRetries + 1
    /\ \A i \in 1..NumOutcomes : outcomes[i].ev = "timeout"

\* C11: for each of Caption, Query, Detect and Point, if the image path does
\* not exist or cannot be read, the operation returns the file-read error
\* with the zero result; sendRequest is never entered (no request is built,
\* no client.Do call and no network attempt is made).
C11_UnreadableImageMakesNoRequest ==
    image.status # "ok" =>
        /\ pc \in {"encode", "done"}
        /\ req = NoReq
        /\ execErr = NoErr
        /\ netAttempts = 0
        /\ NumOutcomes = 0
        /\ pc = "done" =>
              (retErr = FileReadErr(image.status) /\ retVal = ZeroValue)

C11_Witness ==
    /\ image.status = "missing"
    /\ op = "Detect"
    /\ pc = "done"
    /\ retErr.kind = "file"

\* C12: round trip of encodeImage: for every byte sequence stored in a
\* readable file, the image_url of the request starts with
\* "data:image/jpeg;base64," and base64-decoding the remainder yields exactly
\* the bytes of the file.
HasPrefix(t, pre) == Len(t) >= Len(pre) /\ SubSeq(t, 1, Len(pre)) = pre
TrimPrefix(t, pre) == SubSeq(t, Len(pre) + 1, Len(t))
DataURIText == << "d", "a", "t", "a", ":", "i", "m", "a", "g", "e", "/",
                  "j", "p", "e", "g", ";", "b", "a", "s", "e", "6", "4", "," >>

C12_EncodeImageRoundTrip ==
    (image.status = "ok" /\ pc # "encode") =>
        /\ HasPrefix(req.body.image_url, DataURIText)
        /\ DecodeString(TrimPrefix(req.body.image_url, DataURIText))
              = [ok |-> TRUE, data |-> image.data]

C12_Witness ==
    /\ pc = "call"
    /\ image.data = << 255, 84 >>
    /\ Len(req.body.image_url) = Len(DataURIText) + 4

\* C13: after NewMoondreamClient(key, opts...) the options have been applied
\* in order: config.Timeout and config.BaseURL each equal the value of the
\* last option that targets them, or the default if none does; the API key is
\* the given key; MaxRetries and RetryDelay keep their defaults.
LastIndexOf(kind) ==
    LET idx == { i \in 1..Len(opts) : opts[i].opt = kind }
    IN IF idx = {} THEN 0 ELSE CHOOSE i \in idx : \A j \in idx : j <= i

C13_OptionsAppliedInOrder ==
    /\ client.config.Timeout =
          IF LastIndexOf("timeout") = 0 THEN defaultTimeout
          ELSE opts[LastIndexOf("timeout")].timeout
    /\ client.config.BaseURL =
          IF LastIndexOf("baseurl") = 0 THEN defaultBaseURL
          ELSE opts[LastIndexOf("baseurl")].url
    /\ client.apiKey = key
    /\ client.config.MaxRetries = defaultMaxRetries
    /\ client.config.RetryDelay = defaultRetryDelay

C13_Witness ==
    /\ opts = << WithTimeout(CustomTimeout), WithBaseURL(OtherBaseURL),
                 WithTimeout(OtherTimeout) >>
    /\ key = "other-key"
    /\ client.config.Timeout = OtherTimeout
    /\ pc = "call"

\* C15: when a response with status >= 400 has been read, the error recorded
\* in lastErr is an APIError; if the body parses as APIError JSON it carries
\* the body's status_code and message, otherwise the HTTP status code and the
\* raw body text.
ErrorResponseHandled ==
    /\ pc = "read"
    /\ resp.status >= 400
    /\ Len(outcomes') = Len(outcomes) + 1
    /\ outcomes'[Len(outcomes')].ev = "resp"

C15_APIErrorFromBody ==
    [][ErrorResponseHandled =>
          /\ lastErr'.kind = "api"
          /\ resp.ebody.json =>
                (lastErr'.status = resp.ebody.code /\ lastErr'.msg = resp.ebody.msg)
          /\ ~resp.ebody.json =>
                (lastErr'.status = resp.status /\ lastErr'.msg = resp.ebody.msg)]_vars

\* an invocation answered 499 with a JSON body that says status_code 400
C15_Witness ==
    /\ pc = "done"
    /\ NumOutcomes = 1
    /\ LastOutcome = Responded(499, FALSE)
    /\ lastErr.kind = "api"
    /\ lastErr.status = 400
    /\ lastErr.msg = "invalid key"
    /\ retErr = lastErr

\* C16 (as stated): every network attempt is an HTTP POST to base_url + the
\* operation's path and carries the headers X-Api-Auth: <API key> and
\* Content-Type: application/json.
PathOf(o) ==
    CASE o = "Caption" -> "/caption"
      [] o = "Query" -> "/query"
      [] o = "Detect" -> "/detect"
      [] o = "Point" -> "/point"

SentWithHeaders(authName) ==
    netAttempts > 0 /\ sentReq # NoReq =>
        /\ sentReq.method = "POST"
        /\ sentReq.url = client.config.BaseURL \o PathOf(op)
        /\ << authName, key >> \in sentReq.header
        /\ << "Content-Type", "application/json" >> \in sentReq.header

C16_Original == SentWithHeaders("X-Api-Auth")

\* C16 (amended): every network attempt is an HTTP POST to base_url + the
\* operation's path and carries the headers X-Moondream-Auth: <API key> and
\* Content-Type: application/json.
C16_PostWithAuthHeader == SentWithHeaders("X-Moondream-Auth")

\* a retry of Detect that was transmitted, on a client with a custom base URL
C16_Witness ==
    /\ pc = "do"
    /\ op = "Detect"
    /\ netAttempts = 2
    /\ client.config.BaseURL = CustomBaseURL
    /\ sentReq.url = CustomBaseURL \o "/detect"

\* C17: whenever sendRequest returned an error e, the operation returns
\* exactly e together with the zero result; an operation never returns both a
\* non-zero result and an error.
C17_ErrorsPropagateUnchanged ==
    pc = "done" =>
        /\ execErr # NoErr => (retErr = execErr /\ retVal = ZeroValue)
        /\ retErr # NoErr => retVal = ZeroValue

\* sendRequest gave up after a decoding failure that left data in the
\* response struct
C17_Witness ==
    /\ pc = "done"
    /\ execErr = MaxRetriesExceeded(DecodeErr(defaultMaxRetries))
    /\ Project(op, result) # ZeroValue
    /\ retErr = execErr
    /\ retVal = ZeroValue

\* C18: an invocation never starts more than MaxRetries+1 network attempts,
\* and it returns the "max retries exceeded" error only after exactly
\* MaxRetries+1 network attempts were made and each of them failed retryably.
C18_AttemptsBounded ==
    /\ netAttempts <= client.config.MaxRetries + 1
    /\ (pc = "done" /\ retErr.wrapped) =>
          /\ netAttempts = client.config.MaxRetries + 1
          /\ NumOutcomes = client.config.MaxRetries + 1
          /\ \A i \in 1..NumOutcomes : IsRetryable(outcomes[i])

\* C19: every network attempt, retries included, transmits the complete
\* serialized request payload, the same body as attempt 0 sent.
C19_RetriesSendFullBody ==
    /\ pc = "do" => (sentBody = "full" /\ sentReq.body = req.body)
    /\ \A i \in 1..NumOutcomes : outcomes[i] # Failed("bodylen")

\* C20: once ctx is cancelled, sendRequest starts no new network attempt,
\* whenever the cancellation happens; an invocation entered with ctx already
\* cancelled makes no network attempt at all and returns ctx.Err().
EnteredCancelled ==
    /\ image.status = "ok"
    /\ cancelAt.attempt = 0
    /\ cancelAt.pc \in {"encode", "call"}

C20_NoAttemptAfterCancel ==
    /\ [][cancelled => netAttempts' = netAttempts]_vars
    /\ [](EnteredCancelled => netAttempts = 0)
    /\ []((EnteredCancelled /\ pc = "done") => retErr = CtxErr)

\* an invocation entered with ctx cancelled has returned
C20_Witness ==
    /\ pc = "done"
    /\ cancelAt.pc = "encode"
    /\ outcomes = << Failed("ctx") >>
    /\ netAttempts = 0
    /\ retErr = CtxErr

\* ctx is cancelled after two failed attempts, before the third client.Do
C20_WitnessLater ==
    /\ pc = "done"
    /\ cancelAt.pc = "call"
    /\ cancelAt.attempt = 2
    /\ netAttempts = 2
    /\ retErr = CtxErr

\* C14: when two invocations run interleaved on one client, no step writes
\* the client (config, API key, transport); a step of the running invocation
\* leaves the locals of the suspended one (its attempt counter and lastErr
\* among them) untouched, and a switch hands them back unchanged; and the
\* attempt counter, lastErr and the returned error and value of each
\* invocation are those the sequential code computes from the outcomes of
\* that invocation's own client.Do calls.
AloneErr(o, out, n) ==
    CASE out.ev = "read" -> ReadErr(n)
      [] out.ev = "resp" /\ out.status >= 400 ->
            LET r == CHOOSE x \in ConcResponses(o) : x.status = out.status
            IN IF r.ebody.json
               THEN APIError(r.ebody.code, r.ebody.msg, n)
               ELSE APIError(r.status, r.ebody.msg, n)
      [] out.ev = "resp" /\ out.status < 400 -> NoErr
      [] OTHER -> SendErr(out.ev, n)

AloneValue(o) ==
    LET r == CHOOSE x \in ConcResponses(o) : x.status = 200
    IN FieldOf(o, r.sbody)

AsIfAlone ==
    LET n == NumOutcomes
    IN /\ \A i \in 1..(n - 1) : IsRetryable(outcomes[i])
       /\ attempt = Cardinality({ i \in 1..n : IsRetryable(outcomes[i]) })
       /\ lastErr =
             IF n = 0 THEN NoErr
             ELSE IF ~IsSuccess(LastOutcome) THEN AloneErr(op, LastOutcome, n - 1)
             ELSE IF n = 1 THEN NoErr
             ELSE AloneErr(op, outcomes[n - 1], n - 2)
       /\ pc = "done" =>
             IF image.status # "ok"
             THEN n = 0 /\ retErr = FileReadErr(image.status) /\ retVal = ZeroValue
             ELSE IF n > 0 /\ IsSuccess(LastOutcome)
             THEN retErr = NoErr /\ retVal = AloneValue(op)
             ELSE IF n > 0 /\ Is4xx(LastOutcome)
             THEN retErr = AloneErr(op, LastOutcome, n - 1) /\ retVal = ZeroValue
             ELSE IF n = client.config.MaxRetries + 1
             THEN /\ retErr = MaxRetriesExceeded(AloneErr(op, LastOutcome, n - 1))
                  /\ retVal = ZeroValue
             ELSE n > 0 /\ cancelled /\ retErr = CtxErr /\ retVal = ZeroValue

C14_ConcurrentInvocationsIsolated ==
    /\ [][client' = client]_vars
    /\ [][other' = other \/ (other' = Locals /\ Locals' = other)]_vars
    /\ []AsIfAlone

\* both invocations are under way, with different attempt counters and
\* different recorded errors
C14_Witness ==
    /\ other # NoInvocation
    /\ pc = "do"
    /\ attempt = 2
    /\ lastErr = SendErr("refused", 1)
    /\ other.pc = "wait"
    /\ other.attempt = 1
    /\ other.lastErr.kind = "api"
    /\ other.op # op

\* C21: for every response with status >= 400, the StatusCode of the APIError
\* that sendRequest records (lastErr) or returns equals the HTTP status code
\* of that response, whatever the body contains.
C21_StatusCodeIsHTTPStatus ==
    (NumOutcomes > 0 /\ LastOutcome.ev = "resp" /\ LastOutcome.status >= 400) =>
        /\ lastErr.kind = "api"
        /\ lastErr.status = LastOutcome.status
        /\ (pc = "done" /\ retErr.kind = "api") =>
              retErr.status = LastOutcome.status

\* C23: after NewMoondreamClient with any sequence of options, the timeout
\* of the http.Client (client.Timeout) equals config.Timeout, and the two
\* stay equal while the client is used.
C23_TimeoutsAgree == client.httpTimeout = client.config.Timeout

\* a client built with WithTimeout given twice
C23_Witness ==
    /\ opts = << WithTimeout(OtherTimeout), WithTimeout(CustomTimeout) >>
    /\ client.httpTimeout = CustomTimeout
    /\ client.config.Timeout = CustomTimeout
    /\ pc = "call"

\* a client built with no option
C23_WitnessDefault ==
    /\ opts = << >>
    /\ client.httpTimeout = defaultTimeout

\* C22: every invocation eventually returns, provided each network call
\* returns and each backoff timer fires, whatever the outcomes of the attempts
\* and whenever ctx is cancelled.
C22_EventuallyReturns == <>(pc = "done")

\* an invocation that returned after four different failures
C22_Witness ==
    /\ pc = "done"
    /\ attempt = defaultMaxRetries + 1
    /\ Len(waits) = defaultMaxRetries
    /\ outcomes[1] = Failed("timeout")
    /\ outcomes[2] = Failed("read")
    /\ Is5xx(outcomes[3])
    /\ IsUndecodable(outcomes[4])

====
